---- MODULE Spec2Model ----
(***************************************************************************)
(* Model of the job orchestration of src/app.py: the "Generate" branch of  *)
(* main() (submission loop, polling loop, download) and the three          *)
(* SoraClient operations it calls.  The remote service is the environment: *)
(* every HTTP exchange draws its outcome from a small set.                 *)
(***************************************************************************)
EXTENDS Integers, Sequences, FiniteSets, TLC

\* ------------------------------------------------------------------ bounds
\* Largest batch_size explored (the slider of app.py allows 1..5).
BatchMax == 2
\* Largest number of get_status calls explored in one run of main().
MaxPolls == 5
\* Polls that the service may answer with any status before every answer
\* ends a job (specification LiveSpec).
LivePolls == 2

\* -------------------------------------------------------- program constants
\* time.sleep(4): the wait at the head of every polling iteration.
PollInterval == 4
\* "progress_bar": None, the bar of a job that was never polled.
NoBar == -1
\* A poll response without a "progress" field.
NoProgress == -1
\* progress(5) for a queued job, the floor max(.., 10) for a rendering job,
\* progress(100) for a finished one.
QueuedProgress == 5
RenderFloor == 10
DoneProgress == 100

NoField == "<absent>"
NoError == "<none>"
InvalidKeyMsg == "Invalid API Key. Please check your credentials."

SuccessWords == {"succeeded", "completed"}
FailureWords == {"failed", "rejected", "error"}
RenderWords == {"processing", "in_progress"}

\* ------------------------------------------------------- the remote service
\* Outcomes of POST /videos.
CreateResponses ==
    {[kind |-> "ok", code |-> 200, text |-> ""],
     [kind |-> "http", code |-> 401, text |-> "unauthorized"],
     [kind |-> "http", code |-> 500, text |-> "server error"],
     [kind |-> "http", code |-> 500, text |-> ""],
     [kind |-> "transport", code |-> 0, text |-> ""]}

\* A JSON body of GET /videos/{id}; any field may be missing.
Json(s, p, e) == [kind |-> "json", status |-> s, progress |-> p, error |-> e]

\* Outcomes of GET /videos/{id}: a JSON body, or an exception of requests.
\* Progress is varied where the program displays one, the error detail
\* where the job failed or was canceled.
PollResponses ==
    {Json(s, p, NoField) : s \in {"queued", "in_progress"}, p \in {NoProgress, 37}}
    \cup {Json("processing", p, NoField) : p \in {0, 37}}
    \cup {Json("succeeded", 37, NoField), Json("completed", NoProgress, NoField)}
    \cup {Json(s, NoProgress, e) : s \in {"failed", "canceled"},
                                  e \in {NoField, "remote detail"}}
    \cup {Json(s, NoProgress, NoField) : s \in {"rejected", "error", "Completed", NoField}}
    \cup {[kind |-> "exception", status |-> NoField, progress |-> NoProgress,
           error |-> NoField]}

\* Outcomes of GET /videos/{id}/content.
DownloadResponses == {"ok", "exception"}
\* The Content-Length of the artifact in MiB (0: the header is missing).
ContentLengths == {0, 10}
\* Whole time units a download may block the loop for (a get_status or
\* create_job round trip is taken to be short against the unit).
DownloadTimes == {0, 1}

VARIABLES
    pc,            \* position in main(): idle, submit, while, for, download, done
    api_key,       \* "" or a key
    active_prompt, \* "" or a prompt
    batch_size,
    i,             \* number of create_job attempts made
    created,       \* created[k]: the HTTP outcome of attempt k ("none" before it)
    submitErr,     \* submitErr[k]: text of st.error("Failed to start job k: ..")
    batchMsg,      \* batch-level st.error message, or NoError
    jobs,          \* the jobs list (ids of the started jobs, in order)
    active_jobs,   \* the active_jobs list
    idx,           \* index of reversed(active_jobs)'s iterator (1-based)
    job,           \* the loop variable job (0: none yet)
    data,          \* the last get_status result
    shown,         \* shown[j]: raw status last written to the job's placeholder
    bar,           \* bar[j]: value of job["progress_bar"], NoBar when None
    result,        \* result[j]: "none", "success" (st.success) or "failed" (st.error)
    artifact,      \* artifact[j]: "none", "video" or "dlerror"
    clock,         \* time slept so far
    polls,         \* polls[j]: number of get_status calls made for job j
    script,        \* script[j]: observer of the response sequence (ScriptStep)
    lastPollAt,    \* lastPollAt[j]: the time of the last get_status call for job j
                   \* while j is tracked (0 before the first call and after the last)
    dl,            \* the download just made, until the loop moves on: declared
                   \* size, progress callbacks made
    due,           \* observer: jobs active when the tick began and not polled in it
    failure        \* failure[j]: the st.error report of a failed job

vars == <<pc, api_key, active_prompt, batch_size, i, created, submitErr, batchMsg,
          jobs, active_jobs, idx, job, data, shown, bar, result, artifact, clock,
          polls, script, lastPollAt, dl, due, failure>>

Ids == 1..BatchMax

Max(a, b) == IF a >= b THEN a ELSE b

\* dict.get(key, default)
Get(v, default) == IF v = NoField THEN default ELSE v

\* ------------------------------------------------------------- SoraClient
\* create_job without its 401 branch: every HTTP error gives the body text.
CreateJobNo401(http, n) ==
    IF http.kind = "ok" THEN [id |-> n, error |-> NoError]
    ELSE IF http.kind = "http"
         THEN [id |-> 0, error |-> IF http.text # "" THEN http.text ELSE "HTTPError"]
         ELSE [id |-> 0, error |-> "Connection error"]

\* create_job: the JSON body on success, else a dict with "error".
CreateJob(http, n) ==
    IF http.kind = "ok" THEN [id |-> n, error |-> NoError]
    ELSE IF http.kind = "http"
         THEN IF http.code = 401
              THEN [id |-> 0, error |-> InvalidKeyMsg]
              ELSE [id |-> 0,
                    error |-> IF http.text # "" THEN http.text ELSE "HTTPError"]
         ELSE [id |-> 0, error |-> "Connection error"]

\* get_status: the JSON body, or {"status": "error", "error": str(e)}.
GetStatus(http) ==
    IF http.kind = "json"
    THEN [status |-> http.status, progress |-> http.progress, error |-> http.error]
    ELSE [status |-> "error", progress |-> NoProgress, error |-> "exception"]

\* download_video: the bytes, or RuntimeError raised.
DownloadVideo(http) ==
    IF http = "ok" THEN [raised |-> FALSE, content |-> "bytes"]
    ELSE [raised |-> TRUE, content |-> "Download failed"]

\* download_video's progress reports for a body of the given declared size:
\* the body is fetched by one requests.get and read as response.content, no
\* callback is taken or invoked.
ProgressCalls(total) == <<>>

\* ------------------------------------------------------------------- main
\* new_status = data.get("status", "unknown")
NewStatus(d) == Get(d.status, "unknown")

\* progress = data.get("progress", 0); current_prog = int(progress) if progress else 0
CurrentProg(d) ==
    LET progress == IF d.progress = NoProgress THEN 0 ELSE d.progress
    IN  IF progress # 0 THEN progress ELSE 0

\* The progress bar without the floor of a rendering job.
BarAfterNoFloor(old, new_status, current_prog) ==
    LET b0 == IF old = NoBar THEN 0 ELSE old
        b1 == IF new_status = "queued" THEN QueuedProgress
              ELSE IF new_status \in RenderWords THEN current_prog
              ELSE b0
    IN  IF new_status \in SuccessWords THEN DoneProgress ELSE b1

\* The value of the job's progress bar after the display block and the
\* success branch of one poll; old is its value before (NoBar: not created).
BarAfter(old, new_status, current_prog) ==
    LET b0 == IF old = NoBar THEN 0 ELSE old
        b1 == IF new_status = "queued" THEN QueuedProgress
              ELSE IF new_status \in RenderWords THEN Max(current_prog, RenderFloor)
              ELSE b0
    IN  IF new_status \in SuccessWords THEN DoneProgress ELSE b1

\* The poll handler with the failure statuses tested in the success branch.
BranchFailedAsSuccess(new_status) ==
    IF new_status \in SuccessWords \cup FailureWords THEN "success"
    ELSE "continue"

\* The poll handler with a final else that fails the job.
BranchUnknownFails(new_status) ==
    IF new_status \in SuccessWords THEN "success"
    ELSE IF new_status \in FailureWords THEN "failed"
    ELSE IF new_status = "queued" \/ new_status \in RenderWords THEN "continue"
    ELSE "failed"

\* The branch of the poll handler a raw status takes.
Branch(new_status) ==
    IF new_status \in SuccessWords THEN "success"
    ELSE IF new_status \in FailureWords THEN "failed"
    ELSE "continue"

\* st.error(f"Job {id} Failed"): the report of a failed job, made from the
\* poll result d.
FailureReport(d) == [text |-> "Failed", detail |-> NoField]
NoDownload == [done |-> FALSE, total |-> 0, calls |-> <<>>]
NoReport == [text |-> NoError, detail |-> NoField]

\* Iteration of the list itself, front to back, in place of reversed(s).
Forward(s) == [first |-> 1, step |-> 1]

\* reversed(s): the iterator's first index and its step.
Reversed(s) == [first |-> Len(s), step |-> -1]

\* The elements of a list.
Elems(s) == {s[k] : k \in 1..Len(s)}

\* list.remove(x): the list without the first element equal to x.
RECURSIVE Remove(_, _)
Remove(s, x) ==
    IF s = <<>> THEN <<>>
    ELSE IF Head(s) = x THEN Tail(s)
    ELSE <<Head(s)>> \o Remove(Tail(s), x)

InSeq(s, x) == \E k \in 1..Len(s) : s[k] = x

\* Observer of one response sequence, [queued, processing(0), processing(37),
\* completed]: s is how many of its responses the polls of a job have matched
\* so far, -1 once a response differed; after the fourth match it stays.
ScriptMatches(k, r) ==
    \/ k = 1 /\ r.kind = "json" /\ r.status = "queued"
    \/ k = 2 /\ r.kind = "json" /\ r.status = "processing" /\ r.progress = 0
    \/ k = 3 /\ r.kind = "json" /\ r.status = "processing" /\ r.progress = 37
    \/ k = 4 /\ r.kind = "json" /\ r.status = "completed"
ScriptStep(s, r) ==
    IF s = 4 THEN 4
    ELSE IF s >= 0 /\ ScriptMatches(s + 1, r) THEN s + 1
    ELSE -1

\* The number of get_status calls made so far.
RECURSIVE SumTo(_, _)
SumTo(f, n) == IF n = 0 THEN 0 ELSE f[n] + SumTo(f, n - 1)
TotalPolls == SumTo(polls, BatchMax)

NoData == [status |-> NoField, progress |-> NoProgress, error |-> NoField]

Init ==
    /\ pc = "idle"
    /\ api_key \in {"", "sk-key"}
    /\ active_prompt \in {"", "a prompt"}
    /\ batch_size \in 1..BatchMax
    /\ i = 0
    /\ created = [k \in Ids |-> "none"]
    /\ submitErr = [k \in Ids |-> NoError]
    /\ batchMsg = NoError
    /\ jobs = <<>>
    /\ active_jobs = <<>>
    /\ idx = 0
    /\ job = 0
    /\ data = NoData
    /\ shown = [k \in Ids |-> NoField]
    /\ bar = [k \in Ids |-> NoBar]
    /\ result = [k \in Ids |-> "none"]
    /\ artifact = [k \in Ids |-> "none"]
    /\ clock = 0
    /\ polls = [k \in Ids |-> 0]
    /\ script = [k \in Ids |-> 0]
    /\ lastPollAt = [k \in Ids |-> 0]
    /\ dl = NoDownload
    /\ due = {}
    /\ failure = [k \in Ids |-> NoReport]

\* if generate_btn: the two early returns, else the client is built.
Generate ==
    /\ pc = "idle"
    /\ IF api_key = ""
       THEN pc' = "done" /\ batchMsg' = "Missing API Key"
       ELSE IF active_prompt = ""
            THEN pc' = "done" /\ batchMsg' = "Please enter a prompt"
            ELSE pc' = "submit" /\ batchMsg' = batchMsg
    /\ UNCHANGED <<api_key, active_prompt, batch_size, i, created, submitErr, jobs,
                   active_jobs, idx, job, data, shown, bar, result, artifact, clock,
                   polls, script, lastPollAt, dl, due,
                   failure>>

\* The submission loop with "break" in place of "continue" after a failure.
SubmitAborting ==
    /\ pc = "submit"
    /\ i < batch_size
    /\ \E http \in CreateResponses :
         LET n == i + 1
             job_data == CreateJob(http, n)
         IN  /\ created' = [created EXCEPT ![n] = IF http.kind = "ok" THEN "ok"
                                                   ELSE IF http.kind = "transport"
                                                        THEN "transport"
                                                        ELSE IF http.code = 401
                                                             THEN "401" ELSE "http"]
             /\ IF job_data.error # NoError
                THEN /\ submitErr' = [submitErr EXCEPT ![n] = job_data.error]
                     /\ jobs' = jobs
                     /\ i' = batch_size
                ELSE /\ submitErr' = submitErr
                     /\ jobs' = Append(jobs, job_data.id)
                     /\ i' = i + 1
    /\ UNCHANGED <<pc, api_key, active_prompt, batch_size, batchMsg, active_jobs, idx,
                   job, data, shown, bar, result, artifact, clock, polls,
                   script, lastPollAt, dl, due,
                   failure>>

\* One iteration of "for i in range(batch_size)".
Submit ==
    /\ pc = "submit"
    /\ i < batch_size
    /\ \E http \in CreateResponses :
         LET n == i + 1
             job_data == CreateJob(http, n)
         IN  /\ created' = [created EXCEPT ![n] = IF http.kind = "ok" THEN "ok"
                                                   ELSE IF http.kind = "transport"
                                                        THEN "transport"
                                                        ELSE IF http.code = 401
                                                             THEN "401" ELSE "http"]
             /\ IF job_data.error # NoError
                THEN /\ submitErr' = [submitErr EXCEPT ![n] = job_data.error]
                     /\ jobs' = jobs
                ELSE /\ submitErr' = submitErr
                     /\ jobs' = Append(jobs, job_data.id)
    /\ i' = i + 1
    /\ UNCHANGED <<pc, api_key, active_prompt, batch_size, batchMsg, active_jobs, idx,
                   job, data, shown, bar, result, artifact, clock, polls,
                   script, lastPollAt, dl, due,
                   failure>>

\* The end of the submission loop: "if not jobs: return", else active_jobs = jobs[:].
EndSubmit ==
    /\ pc = "submit"
    /\ i >= batch_size
    /\ IF jobs = <<>>
       THEN pc' = "done" /\ batchMsg' = "No jobs started." /\ active_jobs' = active_jobs
       ELSE pc' = "while" /\ batchMsg' = batchMsg /\ active_jobs' = jobs
    /\ UNCHANGED <<api_key, active_prompt, batch_size, i, created, submitErr, jobs, idx,
                   job, data, shown, bar, result, artifact, clock, polls,
                   script, lastPollAt, dl, due,
                   failure>>

\* The tick without its time.sleep(4).
TickStepNoSleep ==
    /\ pc = "while"
    /\ active_jobs # <<>>
    /\ clock' = clock
    /\ idx' = Reversed(active_jobs).first
    /\ due' = Elems(active_jobs)
    /\ pc' = "for"
    /\ UNCHANGED <<api_key, active_prompt, batch_size, i, created, submitErr, batchMsg,
                   jobs, active_jobs, job, data, shown, bar, result, artifact, polls,
                   script, lastPollAt, dl, failure>>

\* "while active_jobs:" holds: time.sleep(4), then reversed(active_jobs) is made.
TickStep ==
    /\ pc = "while"
    /\ active_jobs # <<>>
    /\ clock' = clock + PollInterval
    /\ idx' = Reversed(active_jobs).first
    /\ due' = Elems(active_jobs)
    /\ pc' = "for"
    /\ UNCHANGED <<api_key, active_prompt, batch_size, i, created, submitErr, batchMsg,
                   jobs, active_jobs, job, data, shown, bar, result, artifact, polls,
                   script, lastPollAt, dl, failure>>

\* The tick, explored while the budget of get_status calls lasts.
Tick == TotalPolls < MaxPolls /\ TickStep

\* The return of main before the active list is empty.
ExitEarly ==
    /\ pc = "while"
    /\ pc' = "done"
    /\ UNCHANGED <<api_key, active_prompt, batch_size, i, created, submitErr, batchMsg,
                   jobs, active_jobs, idx, job, data, shown, bar, result, artifact,
                   clock, polls, script, lastPollAt, dl, due,
                   failure>>

\* "while active_jobs:" fails: main returns.
Exit ==
    /\ pc = "while"
    /\ active_jobs = <<>>
    /\ pc' = "done"
    /\ UNCHANGED <<api_key, active_prompt, batch_size, i, created, submitErr, batchMsg,
                   jobs, active_jobs, idx, job, data, shown, bar, result, artifact,
                   clock, polls, script, lastPollAt, dl, due,
                   failure>>

\* One iteration of "for job in reversed(active_jobs)" up to the download.
PollStep(responses) ==
    /\ pc = "for"
    /\ idx \in 1..Len(active_jobs)
    /\ \E http \in responses :
         LET j == active_jobs[idx]
             d == GetStatus(http)
             new_status == NewStatus(d)
             br == Branch(new_status)
         IN  /\ job' = j
             /\ data' = d
             /\ polls' = [polls EXCEPT ![j] = @ + 1]
             /\ shown' = [shown EXCEPT ![j] = new_status]
             /\ bar' = [bar EXCEPT ![j] = BarAfter(bar[j], new_status, CurrentProg(d))]
             /\ script' = [script EXCEPT ![j] = ScriptStep(script[j], http)]
             /\ active_jobs' = IF br = "continue" THEN active_jobs
                               ELSE Remove(active_jobs, j)
             /\ result' = IF br = "continue" THEN result
                          ELSE [result EXCEPT ![j] = br]
             /\ failure' = IF br = "failed"
                           THEN [failure EXCEPT ![j] = FailureReport(d)]
                           ELSE failure
             /\ lastPollAt' = [lastPollAt EXCEPT ![j] = IF br = "continue" THEN clock
                                                         ELSE 0]
             /\ dl' = NoDownload
             /\ due' = due \ {j}
             /\ pc' = IF br = "success" THEN "download" ELSE "for"
    /\ idx' = idx + Reversed(active_jobs).step
    /\ UNCHANGED <<api_key, active_prompt, batch_size, i, created, submitErr, batchMsg,
                   jobs, artifact, clock>>

\* The poll, explored while the budget of get_status calls lasts.
Poll == TotalPolls < MaxPolls /\ PollStep(PollResponses)

\* The download without its except clause: the RuntimeError ends main().
DownloadUncaught ==
    /\ pc = "download"
    /\ \E http \in DownloadResponses :
         LET r == DownloadVideo(http)
         IN  IF r.raised
             THEN artifact' = artifact /\ pc' = "done"
             ELSE artifact' = [artifact EXCEPT ![job] = "video"] /\ pc' = "for"
    /\ UNCHANGED <<api_key, active_prompt, batch_size, i, created, submitErr, batchMsg,
                   jobs, active_jobs, idx, job, data, shown, bar, result, clock, polls,
                   script, lastPollAt, dl, due,
                   failure>>

\* client.download_video(job["id"]) in the success branch, with its except.
Download ==
    /\ pc = "download"
    /\ \E http \in DownloadResponses, total \in ContentLengths, t \in DownloadTimes :
         LET r == DownloadVideo(http)
         IN  /\ artifact' = [artifact EXCEPT ![job] = IF r.raised THEN "dlerror"
                                                       ELSE "video"]
             /\ dl' = IF r.raised THEN NoDownload
                      ELSE [done |-> TRUE, total |-> total,
                            calls |-> ProgressCalls(total)]
             /\ clock' = clock + t
    /\ pc' = "for"
    /\ UNCHANGED <<api_key, active_prompt, batch_size, i, created, submitErr, batchMsg,
                   jobs, active_jobs, idx, job, data, shown, bar, result, polls,
                   script, lastPollAt, due, failure>>

\* reversed(active_jobs) is exhausted: back to the while test.
EndFor ==
    /\ pc = "for"
    /\ idx \notin 1..Len(active_jobs)
    /\ pc' = "while"
    /\ dl' = NoDownload
    /\ UNCHANGED <<api_key, active_prompt, batch_size, i, created, submitErr, batchMsg,
                   jobs, active_jobs, idx, job, data, shown, bar, result, artifact,
                   clock, polls, script, lastPollAt, due, failure>>

Next ==
    \/ Generate
    \/ Submit
    \/ EndSubmit
    \/ Tick
    \/ Exit
    \/ Poll
    \/ Download
    \/ EndFor

Spec == Init /\ [][Next]_vars

\* The responses that main takes for the end of a job.
EndingResponses ==
    {r \in PollResponses : NewStatus(GetStatus(r)) \in SuccessWords \cup FailureWords}

\* The poll in a run where the service answers anything LivePolls times and
\* from then on answers every poll with a status that ends the job.
LivePoll ==
    PollStep(IF TotalPolls < LivePolls THEN PollResponses ELSE EndingResponses)

LiveNext ==
    \/ Generate
    \/ Submit
    \/ EndSubmit
    \/ TickStep
    \/ Exit
    \/ LivePoll
    \/ Download
    \/ EndFor

\* main runs on one thread that always takes its next step: time.sleep and
\* the HTTP calls return or raise.
LiveSpec == Init /\ [][LiveNext]_vars /\ WF_vars(LiveNext)

TypeOK ==
    /\ pc \in {"idle", "submit", "while", "for", "download", "done"}
    /\ batch_size \in 1..BatchMax
    /\ i \in 0..batch_size
    /\ idx \in 0..BatchMax
    /\ job \in 0..BatchMax
    /\ clock \in 0..(MaxPolls * (PollInterval + 1))
    /\ \A k \in Ids : polls[k] \in 0..MaxPolls
    /\ \A k \in Ids : bar[k] \in {NoBar, 0, QueuedProgress, RenderFloor, 37, DoneProgress}
\* --------------------------------------------------------------- claims
\* The canonical status of a raw status string (the mapping the claims
\* compare the program with) and its terminal values.
Normalize(raw) ==
    IF raw = "queued" THEN "Queued"
    ELSE IF raw \in {"processing", "in_progress"} THEN "Rendering"
    ELSE IF raw \in {"succeeded", "completed"} THEN "Succeeded"
    ELSE IF raw \in {"failed", "rejected", "error"} THEN "Failed"
    ELSE IF raw = "canceled" THEN "Cancelled"
    ELSE "Unknown"
Terminal == {"Succeeded", "Failed", "Cancelled"}

IsActive(j) == InSeq(active_jobs, j)

\* C1: a poll that failed at the transport level (get_status caught an
\* exception) leaves the polled job in the active set, with nothing reported
\* for it.
C1_TransportFailureKeepsJob ==
    (job # 0 /\ data.error = "exception")
        => (IsActive(job) /\ result[job] = "none")

\* C2: after every poll the progress reading follows from the raw status: 5
\* for queued whatever progress was reported, max(reported, 10) for processing
\* and in_progress, 100 for succeeded and completed; the responses [queued,
\* processing(0), processing(37), completed] give 5, 10, 37, 100 in this
\* order and end the polling of the job with its fourth poll.
C2_Readings == <<5, 10, 37, 100>>
C2_ProgressReadings ==
    /\ \A j \in Ids :
         /\ shown[j] = "queued" => bar[j] = 5
         /\ shown[j] \in {"succeeded", "completed"} => bar[j] = 100
         /\ script[j] >= 1 => bar[j] = C2_Readings[script[j]]
         /\ script[j] = 4 => (~IsActive(j) /\ polls[j] = 4)
    /\ job # 0 =>
         LET reported == IF data.progress = NoProgress THEN 0 ELSE data.progress
         IN  /\ data.status = "queued" => bar[job] = 5
             /\ data.status \in {"processing", "in_progress"}
                   => bar[job] = Max(reported, 10)
             /\ data.status \in {"succeeded", "completed"} => bar[job] = 100

\* C2's case: some job got the four responses (and a sibling was polled too).
C2_Witness ==
    \E j \in Ids : script[j] = 4 /\ polls[j] = 4 /\ \E m \in Ids : m # j /\ polls[m] > 0

\* C3: the program treats the raw status of the last poll as the canonical
\* mapping says: terminal success, terminal failure and terminal cancellation
\* end the tracking of the job (with the matching report), queued and
\* rendering show their progress, anything else changes nothing.
C3_CanonicalMapping ==
    job # 0 =>
        LET c == Normalize(NewStatus(data))
        IN  /\ c = "Succeeded" => (~IsActive(job) /\ result[job] = "success")
            /\ c = "Failed" => (~IsActive(job) /\ result[job] = "failed")
            /\ c = "Cancelled" => (~IsActive(job) /\ result[job] # "success")
            /\ c = "Queued" => (IsActive(job) /\ bar[job] = 5)
            /\ c = "Rendering" => (IsActive(job) /\ bar[job] >= 10)
            /\ c = "Unknown" => (IsActive(job) /\ result[job] = "none")

\* C4: once the last poll of a job reported a terminal status (Succeeded,
\* Failed or Cancelled), no step polls the job again or changes what is
\* recorded for it.
C4_TerminalEndsPolling ==
    [][\A j \in Ids :
          Normalize(shown[j]) \in Terminal
              => (polls'[j] = polls[j] /\ shown'[j] = shown[j]
                  /\ result'[j] = result[j] /\ bar'[j] = bar[j])]_vars

\* The submission loop has made all its attempts (main did not return early).
SubmissionDone ==
    \/ pc \in {"while", "for", "download"}
    \/ pc = "done" /\ batchMsg \notin {"Missing API Key", "Please enter a prompt"}

\* C5: a failed create_job does not abort the batch: once the submission loop
\* is over every member was submitted; a failed member is reported with its
\* error, is no job and is never polled; every other member is a job that is
\* in the active set until it has its own terminal result, which it has when
\* main returns.
C5_SubmitFailureIsolated ==
    /\ \A k \in Ids :
         /\ (created[k] \notin {"none", "ok"})
               => /\ submitErr[k] # NoError
                  /\ ~InSeq(jobs, k) /\ ~IsActive(k)
                  /\ polls[k] = 0 /\ result[k] = "none"
         /\ created[k] = "ok" => (submitErr[k] = NoError /\ InSeq(jobs, k))
    /\ SubmissionDone =>
         \A k \in 1..batch_size :
             /\ created[k] # "none"
             /\ created[k] = "ok" =>
                   /\ IsActive(k) \/ result[k] \in {"success", "failed"}
                   /\ pc = "done" => result[k] \in {"success", "failed"}

\* C5's case: a member failed submission and a later member was still
\* submitted, polled and brought to its result.
C5_Witness ==
    /\ pc = "done"
    /\ \E k, m \in Ids :
         /\ k < m
         /\ created[k] \notin {"none", "ok"}
         /\ created[m] = "ok" /\ polls[m] > 0 /\ result[m] = "success"

\* C6: create_job answered with HTTP 401 is reported as invalid credentials,
\* which no other failure is reported as, and the job is never polled.
C6_UnauthorizedDistinct ==
    \A k \in Ids :
        /\ created[k] = "401"
              => /\ submitErr[k] = "Invalid API Key. Please check your credentials."
                 /\ ~InSeq(jobs, k) /\ ~IsActive(k) /\ polls[k] = 0
        /\ created[k] \in {"http", "transport"}
              => submitErr[k] \notin
                     {"Invalid API Key. Please check your credentials.", NoError}

\* C6's case: one member got a 401; its sibling was polled to its end, the
\* member never.
C6_Witness ==
    \E k, m \in Ids :
        /\ created[k] = "401" /\ polls[k] = 0
        /\ created[m] = "ok" /\ polls[m] > 0 /\ pc = "done"

\* C7: after a create_job call returned the 401 outcome, no further
\* create_job call is made and no job of the batch is polled.
C7_UnauthorizedFatal ==
    \A k \in Ids :
        created[k] = "401"
            => /\ \A m \in Ids : m > k => created[m] = "none"
               /\ \A m \in Ids : polls[m] = 0

\* C8: at every tick boundary (the while test) the active set is the set of
\* started jobs whose polls have not shown a terminal status, so the loop
\* exits exactly when every started job is terminal.
C8_ActiveIsNonTerminal ==
    pc = "while" =>
        \A j \in Ids :
            IsActive(j) <=> (created[j] = "ok" /\ Normalize(shown[j]) \notin Terminal)

\* C9: download_video is called for a job right after the poll that showed
\* it succeeded or completed, with no poll in between, once, and for no
\* other job.
C9_StateOK ==
    /\ \A j \in Ids :
         /\ artifact[j] # "none"
               => (result[j] = "success" /\ shown[j] \in {"succeeded", "completed"})
         /\ result[j] = "success"
               => (artifact[j] # "none" \/ (pc = "download" /\ job = j))
         /\ shown[j] \in {"succeeded", "completed"} => result[j] = "success"
         /\ (result[j] = "failed" \/ created[j] # "ok") => artifact[j] = "none"
    /\ pc = "download" => (job # 0 /\ artifact[job] = "none")
C9_StepOK ==
    /\ \A j \in Ids :
         artifact'[j] # artifact[j]
             => (artifact[j] = "none" /\ pc = "download" /\ job = j /\ polls' = polls)
    /\ (polls' # polls)
         => \A m \in Ids : result[m] = "success" => artifact[m] # "none"
    /\ pc = "download" => \E j \in Ids : artifact'[j] # artifact[j]
C9_DownloadExactlyOnSuccess == []C9_StateOK /\ [][C9_StepOK]_vars

\* C9's case: one job was downloaded, another failed and got no download.
C9_Witness ==
    \E j, m \in Ids : artifact[j] = "video" /\ result[m] = "failed" /\ pc = "done"

\* C10: a download that raises leaves the job recorded as succeeded, with a
\* download error of its own and out of the active set; the job is never
\* polled or downloaded again, and the step changes nothing of its siblings:
\* the loop goes on and main returns only when each has its result.
C10_StateOK ==
    /\ \A j \in Ids :
         artifact[j] = "dlerror"
             => (result[j] = "success" /\ bar[j] = 100 /\ ~IsActive(j))
    /\ pc = "done" =>
         \A m \in Ids : created[m] = "ok" /\ SubmissionDone
                             => result[m] \in {"success", "failed"}
C10_StepOK ==
    \A j \in Ids :
        /\ artifact[j] = "dlerror"
              => /\ polls'[j] = polls[j] /\ artifact'[j] = artifact[j]
                 /\ result'[j] = result[j] /\ ~InSeq(active_jobs', j)
        /\ (artifact[j] = "none" /\ artifact'[j] = "dlerror")
              => /\ pc' = "for" /\ active_jobs' = active_jobs /\ idx' = idx
                 /\ \A m \in Ids \ {j} :
                       /\ result'[m] = result[m] /\ shown'[m] = shown[m]
                       /\ bar'[m] = bar[m] /\ artifact'[m] = artifact[m]
C10_DownloadFailureIsolated == []C10_StateOK /\ [][C10_StepOK]_vars

\* C10's case: a download failed, and a sibling was polled after it and
\* reached its own result.
C10_Witness ==
    \E j, m \in Ids :
        /\ artifact[j] = "dlerror" /\ m # j
        /\ polls[m] > polls[j] /\ result[m] \in {"success", "failed"}

\* A step that calls get_status for job j.
Polled(j) == polls'[j] # polls[j]

\* C11: every poll of a job but its first is issued exactly 4 time units
\* after the job's previous poll, whatever the loop does for its siblings in
\* between (their polls, their downloads).
C11_FixedInterval ==
    [][\A j \in Ids :
          (Polled(j) /\ polls[j] > 0) => clock - lastPollAt[j] = 4]_vars

\* C12: a completed download of known total size (in MiB, read in 1 MiB
\* chunks) has invoked the progress callback once per chunk, the k-th time
\* with min(k / total, 1.0), given here in hundredths; with the size unknown
\* it has invoked it never.
C12_ProgressCallbacks ==
    dl.done =>
        dl.calls = [k \in 1..dl.total |->
                       IF (k * 100) \div dl.total < 100 THEN (k * 100) \div dl.total
                       ELSE 100]

\* C13: in every tick each job that was active when the tick began is
\* polled exactly once: a poll is always of a job still due in the tick, and
\* the tick ends with no job left due, whichever jobs were removed on the way.
C13_StateOK ==
    /\ pc = "while" => due = {}
    /\ pc \in {"for", "download"} => due \subseteq Elems(active_jobs)
C13_StepOK ==
    /\ \A j \in Ids : Polled(j) => (j \in due /\ polls'[j] = polls[j] + 1
                                     /\ \A m \in Ids \ {j} : ~Polled(m))
    /\ (pc = "while" /\ pc' = "for") => due' = Elems(active_jobs)
    /\ (pc = "for" /\ pc' = "while") => due = {}
C13_EachActiveJobPolledOnce == []C13_StateOK /\ [][C13_StepOK]_vars

\* C13's case: a tick in which the job polled first was removed ended after
\* its sibling was polled too.
C13_Witness ==
    /\ pc = "while" /\ Len(jobs) = 2
    /\ \E j, m \in Ids :
         /\ j > m /\ polls[j] = 1 /\ polls[m] = 1
         /\ ~IsActive(j) /\ result[j] # "none" /\ IsActive(m)

\* A step that polls job j and gets a status that is unrecognized or absent.
UnknownPoll(j) == Polled(j) /\ Normalize(shown'[j]) = "Unknown"

\* The progress a job's bar shows (0 while the bar is not yet created: the
\* first poll creates it at 0).
Reading(b) == IF b = NoBar THEN 0 ELSE b

\* C14: a poll whose raw status is unrecognized or absent is non-terminal and
\* changes nothing but the poll count: the job stays active, its progress
\* reading is what it was, nothing is downloaded or reported, and the next
\* tick polls the job again.
C14_StateOK ==
    \A j \in Ids :
        (polls[j] > 0 /\ Normalize(shown[j]) = "Unknown")
            => (IsActive(j) /\ result[j] = "none" /\ artifact[j] = "none"
                /\ failure[j] = NoReport)
C14_StepOK ==
    \A j \in Ids :
        /\ UnknownPoll(j)
              => /\ active_jobs' = active_jobs /\ pc' = "for"
                 /\ Reading(bar'[j]) = Reading(bar[j])
                 /\ result' = result /\ artifact' = artifact
                 /\ failure' = failure
                 /\ polls'[j] = polls[j] + 1
        /\ (polls[j] > 0 /\ Normalize(shown[j]) = "Unknown"
                /\ pc = "while" /\ pc' = "for")
              => j \in due'
C14_UnknownIsTransient == []C14_StateOK /\ [][C14_StepOK]_vars

\* C14's case: a job that showed a progress of 37 was then polled with an
\* unknown status and is due again in the next tick.
C14_Witness ==
    \E j \in Ids :
        /\ polls[j] = 3 /\ bar[j] = 37 /\ IsActive(j)
        /\ Normalize(shown[j]) = "Unknown" /\ script[j] = -1
        /\ pc = "for" /\ j \in due

\* C15: when the poll that failed a job (or found it canceled) carried an
\* error detail, the report of the job holds that detail.
C15_ErrorDetailRecorded ==
    (job # 0 /\ Normalize(NewStatus(data)) \in {"Failed", "Cancelled"}
             /\ data.error # NoField)
        => failure[job].detail = data.error

\* C16: the batch_size create_job calls are made in order, each once, and
\* all before the first get_status call; a job's first poll comes after a
\* 4-unit wait; a run in which no submission succeeded ends with no wait and
\* no poll.
C16_StateOK ==
    /\ i \in 0..batch_size
    /\ \A k \in Ids : created[k] # "none" <=> k <= i
    /\ (TotalPolls > 0 \/ clock > 0 \/ pc \in {"while", "for", "download"})
         => i = batch_size
    /\ \A j \in Ids : polls[j] > 0 => clock >= 4
    /\ (pc = "done" /\ jobs = <<>>) => (clock = 0 /\ TotalPolls = 0)
C16_StepOK ==
    /\ i' # i => (i' = i + 1 /\ created[i'] = "none" /\ created'[i'] # "none"
                  /\ TotalPolls = 0 /\ clock = 0)
    /\ created' # created => i' = i + 1
    /\ \A j \in Ids : (Polled(j) /\ polls[j] = 0) => clock >= 4
C16_SubmitThenPoll == []C16_StateOK /\ [][C16_StepOK]_vars

\* C16's case: a batch of two was submitted, then polled, and the run ended.
C16_Witness ==
    /\ batch_size = 2 /\ i = 2 /\ polls[1] > 0 /\ polls[2] > 0 /\ pc = "done"
    /\ clock >= 4

\* C17: in a run where every started job eventually answers a poll with one
\* of succeeded, completed, failed, rejected, error, the polling loop ends,
\* with an empty active list, whether or not a download failed; the loop ends
\* in no other way: the run is over only when every started job has given
\* such a status, and while a job is active the next tick can be taken
\* however often the job was polled.
C17_StateOK ==
    /\ pc = "done"
          => /\ active_jobs = <<>>
             /\ \A j \in Elems(jobs) :
                   /\ shown[j] \in SuccessWords \cup FailureWords
                   /\ result[j] \in {"success", "failed"}
    /\ (pc = "while" /\ active_jobs # <<>>) => ENABLED TickStep
C17_LoopExits ==
    /\ []C17_StateOK
    /\ <>(pc = "done" /\ active_jobs = <<>>)

\* C17's case: the loop ended after more than LivePolls polls, one job's
\* download having failed and another job having failed.
C17_Witness ==
    /\ pc = "done" /\ TotalPolls > LivePolls
    /\ \E j, m \in Ids : artifact[j] = "dlerror" /\ result[m] = "failed"
====
